---- MODULE Spec2Model ----
(***************************************************************************)
(* Model of training/data_streamer.py: the DataStreamer that walks the     *)
(* frames of a remote zstandard archive through ranged HTTP fetches.       *)
(*                                                                         *)
(* Python integers are unbounded while TLC integers are 32 bit and the     *)
(* frame magic 0xFD2FB528 does not fit, so a Python int n is represented   *)
(* as the pair <<n \div 65536, n % 65536>> ("wide" integer).  Python str   *)
(* and bytes values are sequences of one-character strings and of          *)
(* 0..255.                                                                 *)
(***************************************************************************)
EXTENDS Integers, Sequences, FiniteSets, TLC

(* ------------------------------ bounds --------------------------------- *)

\* A fetch is modelled only from positions up to MaxBeyond bytes past the end
\* of the archive (the walk past the end is unbounded in the program).
MaxBeyond == 7

\* Largest number of consecutive skippable frames in a generated archive.
MaxChain == 2

(* ------------------------- unbounded integers --------------------------- *)

Base == 256 * 256

W(n) == <<n \div Base, n % Base>>

WInt(w) == w[1] * Base + w[2]

WAdd(a, b) ==
    LET lo == a[2] + b[2]
    IN  <<a[1] + b[1] + (lo \div Base), lo % Base>>

\* a - b for a >= b
WSub(a, b) ==
    LET lo == a[2] - b[2]
    IN  IF lo >= 0 THEN <<a[1] - b[1], lo>>
                   ELSE <<a[1] - b[1] - 1, lo + Base>>

WMul(a, k) ==
    LET lo == a[2] * k
    IN  <<a[1] * k + (lo \div Base), lo % Base>>

WDiv(a, k) ==
    LET t == (a[1] % k) * Base + a[2]
    IN  <<a[1] \div k, t \div k>>

WMod(a, k) == ((a[1] % k) * Base + a[2]) % k

WLeq(a, n) == a[1] = 0 /\ a[2] <= n

(* ------------------------ Python conversions ---------------------------- *)

DigitChars == <<"0", "1", "2", "3", "4", "5", "6", "7",
                "8", "9", "a", "b", "c", "d", "e", "f">>

UpperChars == <<"0", "1", "2", "3", "4", "5", "6", "7",
                "8", "9", "A", "B", "C", "D", "E", "F">>

DigitVal(c) ==
    CHOOSE v \in 0..15 : DigitChars[v + 1] = c \/ UpperChars[v + 1] = c

RECURSIVE ParseDigits(_, _, _)
ParseDigits(s, base, acc) ==
    IF s = <<>> THEN acc
    ELSE ParseDigits(Tail(s), base, WAdd(WMul(acc, base), W(DigitVal(Head(s)))))

\* int(s, base): an optional "0x" prefix is accepted for base 16
PyInt(s, base) ==
    IF base = 16 /\ Len(s) >= 2 /\ s[1] = "0" /\ s[2] \in {"x", "X"}
    THEN ParseDigits(SubSeq(s, 3, Len(s)), 16, W(0))
    ELSE ParseDigits(s, base, W(0))

RECURSIVE ToDigits(_, _)
ToDigits(w, base) ==
    IF w = W(0) THEN <<>>
    ELSE ToDigits(WDiv(w, base), base) \o <<DigitChars[WMod(w, base) + 1]>>

\* str(n) for n >= 0
PyStr(w) == IF w = W(0) THEN <<"0">> ELSE ToDigits(w, 10)

\* bin(n) for n >= 0
PyBin(w) == <<"0", "b">> \o (IF w = W(0) THEN <<"0">> ELSE ToDigits(w, 2))

\* int.from_bytes(bs, byteorder='little')
RECURSIVE FromBytesLittle(_)
FromBytesLittle(bs) ==
    IF bs = <<>> THEN W(0)
    ELSE WAdd(W(Head(bs)), WMul(FromBytesLittle(Tail(bs)), 256))

FRAME_MAGIC_NUMBER ==
    PyInt(<<"0", "x", "F", "D", "2", "F", "B", "5", "2", "8">>, 16)

SKIPPABLE_MAGIC_NUMBER ==
    PyInt(<<"0", "x", "1", "8", "4", "D", "2", "A", "5", "0">>, 16)

(* --------------------------- archive contents --------------------------- *)

\* n as `width` little-endian bytes (n < 2^24)
LEBytes(n, width) == [i \in 1..width |-> (n \div (256 ^ (i - 1))) % 256]

Filler(n) == [i \in 1..n |-> 0]

DataMagicBytes == <<40, 181, 47, 253>>

SkipMagicBytes == <<80, 42, 77, 24>>

\* bytes FD B5 2F FD: shares three bytes with the data magic
NearMagicBytes == <<253, 181, 47, 253>>

\* A segment of a generated archive.  A skippable frame declares `declared`
\* bytes and carries `bytes`; a data frame has `blocks` ([size, last, type])
\* and `declared` checksum bytes; a raw segment is just `bytes`.
SkipSeg(declared, payload) ==
    [kind |-> "skippable", declared |-> declared, bytes |-> payload,
     blocks |-> <<>>]

DataSeg(blocks, checksum) ==
    [kind |-> "data", declared |-> checksum, bytes |-> <<>>,
     blocks |-> blocks]

RawSeg(bytes) ==
    [kind |-> "raw", declared |-> 0, bytes |-> bytes, blocks |-> <<>>]

Blk(size, last) == [size |-> size, last |-> last, type |-> 0]

EncodeBlock(b) ==
    LEBytes(b.last + 2 * b.type + 8 * b.size, 3) \o Filler(b.size)

RECURSIVE EncodeBlocks(_)
EncodeBlocks(bs) ==
    IF bs = <<>> THEN <<>> ELSE EncodeBlock(Head(bs)) \o EncodeBlocks(Tail(bs))

EncodeSeg(g) ==
    CASE g.kind = "skippable" ->
            SkipMagicBytes \o LEBytes(g.declared, 4) \o g.bytes
      [] g.kind = "data" ->
            DataMagicBytes \o <<4, 0>> \o EncodeBlocks(g.blocks)
                \o Filler(g.declared)
      [] OTHER -> g.bytes

RECURSIVE Encode(_)
Encode(segs) ==
    IF segs = <<>> THEN <<>> ELSE EncodeSeg(Head(segs)) \o Encode(Tail(segs))

\* offset of segment i (i = Len(segs) + 1 gives the archive length)
SegStart(segs, i) == Len(Encode(SubSeq(segs, 1, i - 1)))

SkipChoices ==
    { SkipSeg(0, <<>>), SkipSeg(4, DataMagicBytes), SkipSeg(10, Filler(10)) }

Chains == UNION { [1..k -> SkipChoices] : k \in 0..MaxChain }

Tails ==
    { <<DataSeg(<<Blk(2, 1)>>, 4)>>,
      <<DataSeg(<<Blk(1, 0), Blk(0, 0), Blk(3, 1)>>, 4)>>,
      <<DataSeg(<<Blk(100, 1)>>, 4)>>,
      <<DataSeg(<<Blk(1, 0)>>, 0)>>,
      <<RawSeg(NearMagicBytes \o <<4, 0>>)>>,
      <<SkipSeg(10, Filler(2))>>,
      <<RawSeg(SkipMagicBytes \o <<10, 0>>)>>,
      <<RawSeg(SkipMagicBytes \o DataMagicBytes)>>,
      <<>> }

Archives == { c \o t : c \in Chains, t \in Tails }

\* bodies a server may send with an unsatisfiable range
ErrorBodies == { <<>>, <<60>>, <<61>> }

(* ------------------------------- state ---------------------------------- *)

VARIABLES
    segments,       \* the layout the archive was generated from
    archive,        \* the bytes served at self.url
    url,            \* self.url
    current_pos,    \* self.current_pos
    pc,             \* where download_frame stands
    byte_pos,       \* byte_pos of download_frame / find_data_frame (a str)
    block_pos,      \* block_pos of get_frame_size (a str)
    last_pos,       \* last_pos of get_frame_size (a str)
    is_last_block,  \* is_last_block of get_frame_size
    frame_size,     \* frame_size of download_frame (wide integer)
    error,          \* the exception download_frame ended with
    requests        \* the requests.get calls of the current download_frame

vars == <<segments, archive, url, current_pos, pc, byte_pos, block_pos,
          last_pos, is_last_block, frame_size, error, requests>>

NoStr == <<>>

ArchiveUrl == "lichess_db.pgn.zst"

\* The inclusive byte range [first, last] of the archive, as a server
\* answers it: clipped at the end of the archive, an error body when the
\* range starts at or after the end.
RangeBodies(first, last) ==
    IF WLeq(first, Len(archive) - 1)
    THEN LET lo == WInt(first)
             hi == IF WLeq(last, Len(archive) - 1) THEN WInt(last)
                   ELSE Len(archive) - 1
         IN  { SubSeq(archive, lo + 1, hi + 1) }
    ELSE ErrorBodies

\* get_n_bytes: the Range header and the set of contents it may return
RangeHeader(start_byte, n_range) ==
    LET start == PyInt(start_byte, 10)
        end_byte == WSub(WAdd(start, W(n_range)), W(1))
    IN  [first |-> PyStr(start), last |-> PyStr(end_byte)]

get_n_bytes(start_byte, n_range) ==
    LET head == RangeHeader(start_byte, n_range)
    IN  RangeBodies(PyInt(head.first, 10), PyInt(head.last, 10))

Request(site, start_byte, n_range, content) ==
    [site |-> site, start |-> start_byte, n |-> n_range, content |-> content]

\* the bound of the model on the positions fetched from
Followed(pos) == WLeq(PyInt(pos, 10), Len(archive) + MaxBeyond)

\* metadata['current_pos']: the start of the archive or the start of its
\* last segment
StoredPositions(segs) ==
    { PyStr(W(SegStart(segs, i))) : i \in {1, Len(segs)} \ {0} }

\* the offsets download_frame is called with
StartOffsets == { PyStr(W(n)) : n \in 0..Len(archive) }

Init ==
    /\ segments \in Archives
    /\ archive = Encode(segments)
    /\ url = ArchiveUrl
    /\ current_pos \in StoredPositions(segments)
    /\ pc = "idle"
    /\ byte_pos = NoStr
    /\ block_pos = NoStr
    /\ last_pos = NoStr
    /\ is_last_block = 0
    /\ frame_size = W(0)
    /\ error = "none"
    /\ requests = <<>>

(* ------------------------------ operations ------------------------------ *)

\* download_frame(byte_pos) is entered
DownloadFrame(b) ==
    /\ pc = "idle"
    /\ pc' = "find_data_frame"
    /\ byte_pos' = b
    /\ UNCHANGED <<segments, archive, url, current_pos, block_pos, last_pos,
                   is_last_block, frame_size, error, requests>>

\* variant: the magic numbers are matched on their three high bytes only
MagicBranchPrefix(magic_number) ==
    IF WDiv(magic_number, 256) = WDiv(SKIPPABLE_MAGIC_NUMBER, 256)
    THEN "skip_frame"
    ELSE IF WDiv(magic_number, 256) = WDiv(FRAME_MAGIC_NUMBER, 256)
    THEN "get_frame_size"
    ELSE "raised"

\* the branch find_data_frame takes on a decoded magic number
MagicBranch(magic_number) ==
    IF magic_number = SKIPPABLE_MAGIC_NUMBER THEN "skip_frame"
    ELSE IF magic_number = FRAME_MAGIC_NUMBER THEN "get_frame_size"
    ELSE "raised"

\* block_pos at the start of get_frame_size
FirstBlockPos(pos) == PyStr(WAdd(PyInt(pos, 10), W(6)))

\* one entry of find_data_frame: read the magic number and branch
FindDataFrame ==
    /\ pc = "find_data_frame"
    /\ Followed(byte_pos)
    /\ \E content \in get_n_bytes(byte_pos, 4) :
         LET branch == MagicBranch(FromBytesLittle(content))
         IN  /\ requests' = Append(requests,
                                   Request("magic", byte_pos, 4, content))
             /\ pc' = branch
             /\ error' = IF branch = "raised" THEN "Exception" ELSE error
             /\ block_pos' = IF branch = "get_frame_size"
                             THEN FirstBlockPos(byte_pos) ELSE block_pos
    /\ UNCHANGED <<segments, archive, url, current_pos, byte_pos, last_pos,
                   is_last_block, frame_size>>

\* variant: the frame size is read where the magic number is
FrameSizePosAtMagic(pos) == PyStr(PyInt(pos, 10))

\* skip_frame: where the frame size of a skippable frame is read
FrameSizePos(pos) == PyStr(WAdd(PyInt(pos, 10), W(4)))

\* variant: the 4 bytes of the frame size field are not skipped
SkipToShort(pos, content) ==
    LET header_start == PyInt(pos, 10)
        skip_size == FromBytesLittle(content)
    IN  PyStr(WAdd(WAdd(header_start, W(4)), skip_size))

\* skip_frame: the position returned for the frame size bytes read
SkipTo(pos, content) ==
    LET header_start == PyInt(pos, 10)
        skip_size == FromBytesLittle(content)
    IN  PyStr(WAdd(WAdd(header_start, W(8)), skip_size))

\* variant: the cursor is moved as soon as a skippable frame is skipped
SkipFrameMovesCursor ==
    /\ pc = "skip_frame"
    /\ \E content \in get_n_bytes(FrameSizePos(byte_pos), 4) :
         /\ requests' = Append(requests,
                 Request("frame_size", FrameSizePos(byte_pos), 4, content))
         /\ byte_pos' = SkipTo(byte_pos, content)
         /\ current_pos' = SkipTo(byte_pos, content)
    /\ pc' = "find_data_frame"
    /\ UNCHANGED <<segments, archive, url, block_pos, last_pos,
                   is_last_block, frame_size, error>>

\* skip_frame, then the recursive call of find_data_frame
SkipFrame ==
    /\ pc = "skip_frame"
    /\ \E content \in get_n_bytes(FrameSizePos(byte_pos), 4) :
         /\ requests' = Append(requests,
                 Request("frame_size", FrameSizePos(byte_pos), 4, content))
         /\ byte_pos' = SkipTo(byte_pos, content)
    /\ pc' = "find_data_frame"
    /\ UNCHANGED <<segments, archive, url, current_pos, block_pos, last_pos,
                   is_last_block, frame_size, error>>

\* the last character of a str
LastChar(s) == <<s[Len(s)]>>

\* variant: the last-block flag is the first binary digit of the header and
\* the content size drops two bits instead of three
check_block_header_bits(pos, content) ==
    LET block_header == FromBytesLittle(content)
        is_last == <<PyBin(block_header)[3]>>
        next_block_pos == WAdd(WAdd(PyInt(pos, 10), W(3)),
                               WDiv(block_header, 4))
    IN  <<WInt(PyInt(is_last, 10)), PyStr(next_block_pos)>>

\* check_block_header: <<is_last_block, next_block_pos>> for the bytes read
check_block_header(pos, content) ==
    LET block_header_size == 3
        block_header == FromBytesLittle(content)
        is_last == LastChar(PyBin(block_header))
        block_content_size == WDiv(block_header, 8)
        next_block_pos == WAdd(WAdd(PyInt(pos, 10), W(block_header_size)),
                               block_content_size)
    IN  <<WInt(PyInt(is_last, 10)), PyStr(next_block_pos)>>

\* get_frame_size: the size computed when the loop ends
FrameSize(last, pos) ==
    WAdd(WSub(PyInt(last, 10), PyInt(pos, 10)), W(4))

\* one iteration of the loop of get_frame_size; the last one computes
\* frame_size and download_frame returns
WalkBlock ==
    /\ pc = "get_frame_size"
    /\ Followed(block_pos)
    /\ \E content \in get_n_bytes(block_pos, 3) :
         LET r == check_block_header(block_pos, content)
         IN  /\ requests' = Append(requests,
                     Request("block_header", block_pos, 3, content))
             /\ last_pos' = block_pos
             /\ is_last_block' = r[1]
             /\ block_pos' = r[2]
             /\ IF r[1] # 0
                THEN /\ frame_size' = FrameSize(block_pos, byte_pos)
                     /\ pc' = "returned"
                ELSE UNCHANGED <<frame_size, pc>>
    /\ UNCHANGED <<segments, archive, url, current_pos, byte_pos, error>>

\* requests.get raises: the exception leaves download_frame
RequestFails ==
    /\ pc \in {"find_data_frame", "skip_frame", "get_frame_size"}
    /\ pc' = "raised"
    /\ error' = "RequestException"
    /\ UNCHANGED <<segments, archive, url, current_pos, byte_pos, block_pos,
                   last_pos, is_last_block, frame_size, requests>>

\* download_frame has returned None or raised: its locals are gone and the
\* object is as it was, ready for the next call
Leave ==
    /\ pc \in {"returned", "raised"}
    /\ pc' = "idle"
    /\ byte_pos' = NoStr
    /\ block_pos' = NoStr
    /\ last_pos' = NoStr
    /\ is_last_block' = 0
    /\ frame_size' = W(0)
    /\ error' = "none"
    /\ requests' = <<>>
    /\ UNCHANGED <<segments, archive, url, current_pos>>

Next ==
    \/ \E b \in StartOffsets : DownloadFrame(b)
    \/ FindDataFrame
    \/ SkipFrame
    \/ WalkBlock
    \/ RequestFails
    \/ Leave

Spec == Init /\ [][Next]_vars

(* ------------------------- archive ground truth ------------------------- *)

IsSkippable(g) == g.kind = "skippable" /\ g.declared = Len(g.bytes)

\* a data frame whose last block, and only that one, has the last bit set,
\* followed by its 4 checksum bytes
IsFrame(g) ==
    /\ g.kind = "data"
    /\ g.blocks # <<>>
    /\ g.declared = 4
    /\ \A j \in DOMAIN g.blocks :
          g.blocks[j].last = (IF j = Len(g.blocks) THEN 1 ELSE 0)

\* segments i .. i+k-1 are skippable frames and segment i+k is a data frame
ChainAt(i, k) ==
    /\ i >= 1
    /\ i + k <= Len(segments)
    /\ \A j \in i..(i + k - 1) : IsSkippable(segments[j])
    /\ IsFrame(segments[i + k])

RECURSIVE BlockBytes(_)
BlockBytes(bs) ==
    IF bs = <<>> THEN 0 ELSE 3 + Head(bs).size + BlockBytes(Tail(bs))

\* the offset download_frame was called with
CallOffset == PyInt(requests[1].start, 10)

MagicReads == Cardinality({ j \in DOMAIN requests : requests[j].site = "magic" })

\* value of up to three little-endian bytes
LE24(c) ==
    (IF Len(c) >= 1 THEN c[1] ELSE 0)
    + (IF Len(c) >= 2 THEN 256 * c[2] ELSE 0)
    + (IF Len(c) >= 3 THEN 65536 * c[3] ELSE 0)

\* value of four little-endian bytes, as a wide integer
LE32(c) == <<c[3] + 256 * c[4], c[1] + 256 * c[2]>>

(* -------------------------------- claims -------------------------------- *)

C9_SkippableAt(j) ==
    /\ requests[j].site = "magic"
    /\ requests[j].content = SkipMagicBytes

\* C9: after a magic read at p that found the skippable constant, the next
\* fetch is the 4 bytes at p+4, and when these 4 bytes were read the fetch
\* after it is the magic read at p + 8 + skip_size, skip_size being their
\* little-endian value.
C9_SkipTargetExact ==
    \A j \in DOMAIN requests :
        C9_SkippableAt(j) =>
            LET p == PyInt(requests[j].start, 10)
            IN  /\ (j + 1 <= Len(requests)) =>
                      /\ requests[j + 1].site = "frame_size"
                      /\ requests[j + 1].n = 4
                      /\ PyInt(requests[j + 1].start, 10) = WAdd(p, W(4))
                /\ (j + 2 <= Len(requests)
                        /\ Len(requests[j + 1].content) = 4) =>
                      /\ requests[j + 2].site = "magic"
                      /\ PyInt(requests[j + 2].start, 10)
                           = WAdd(WAdd(p, W(8)), LE32(requests[j + 1].content))

\* the scenario of the specification: a skippable frame of 10 bytes at 0
C9_Witness ==
    /\ Len(requests) >= 3
    /\ C9_SkippableAt(1)
    /\ requests[1].start = <<"0">>
    /\ requests[2].content = <<10, 0, 0, 0>>
    /\ requests[3].start = <<"1", "8">>

\* C8: the values check_block_header returned for the header bytes last read
\* at offset last_pos are is_last = h % 2 and next offset = last_pos + 3 +
\* h \div 8, h being the little-endian value of the bytes read.
C8_BlockHeaderDecoding ==
    (requests # <<>> /\ requests[Len(requests)].site = "block_header") =>
        LET h == LE24(requests[Len(requests)].content)
            offset == WInt(PyInt(requests[Len(requests)].start, 10))
        IN  /\ last_pos = requests[Len(requests)].start
            /\ is_last_block = h % 2
            /\ PyInt(block_pos, 10) = W(offset + 3 + (h \div 8))

C8_Witness ==
    /\ requests # <<>>
    /\ requests[Len(requests)].site = "block_header"
    /\ requests[Len(requests)].content = <<0, 0, 0>>
    /\ pc = "get_frame_size"

\* C5: a magic read whose bytes are neither of the two magic numbers is the
\* last fetch of the call, and the call has raised the format exception
\* without computing a block position or a frame size.
C5_BadMagicRaises ==
    \A j \in DOMAIN requests :
        (requests[j].site = "magic"
            /\ requests[j].content \notin {DataMagicBytes, SkipMagicBytes})
        => /\ j = Len(requests)
           /\ pc = "raised"
           /\ error = "Exception"
           /\ block_pos = NoStr
           /\ frame_size = W(0)

C5_Witness ==
    /\ pc = "raised"
    /\ error = "Exception"
    /\ requests # <<>>
    /\ requests[Len(requests)].content = NearMagicBytes

\* C3: no step of download_frame other than the return with a sized frame
\* changes current_pos; in particular a failed request leaves it as it was.
C3_FailedAdvanceKeepsCursor ==
    [][pc' # "returned" => current_pos' = current_pos]_vars

C3_Witness ==
    /\ pc = "raised"
    /\ error = "RequestException"
    /\ Len(requests) >= 3
    /\ requests[Len(requests)].site = "block_header"

\* C1: when download_frame has returned for a well-formed data frame with
\* block content sizes s1..sn, frame_size is 6 + sum(3 + si) + 4.
C1_FrameSizeIsWholeSpan ==
    \A i \in 1..Len(segments) :
        (pc = "returned" /\ IsFrame(segments[i])
            /\ byte_pos = PyStr(W(SegStart(segments, i))))
        => frame_size = W(6 + BlockBytes(segments[i].blocks) + 4)

\* C4: when download_frame has located and sized a frame, current_pos is
\* the frame start plus the frame size.
C4_AdvanceMovesCursor ==
    pc = "returned" => current_pos = PyStr(WAdd(PyInt(byte_pos, 10), frame_size))

\* C6: a fetch that returned fewer bytes than requested is the last fetch of
\* the call and the call has raised.
C6_ShortReadIsError ==
    \A j \in DOMAIN requests :
        Len(requests[j].content) < requests[j].n
        => (j = Len(requests) /\ pc = "raised")

\* C7: no fetch is issued at an offset beyond the archive length.
C7_NoFetchBeyondArchive ==
    \A j \in DOMAIN requests :
        WLeq(PyInt(requests[j].start, 10), Len(archive))

\* C10: a block walk that has run off the end of the archive does not go on
\* walking: its next step ends download_frame.
C10_WalkOffEndStops ==
    [][(pc = "get_frame_size" /\ ~WLeq(PyInt(block_pos, 10), Len(archive) - 1))
          => pc' # "get_frame_size"]_vars

====
